---- MODULE Spec2Model ----
(***************************************************************************)
(* First Fit memory manager (src/memory_manager.py).                       *)
(*                                                                         *)
(* The state is the FirstFitMemoryManager object: total_memory, the        *)
(* ordered list memory_blocks of MemoryBlock objects and the list          *)
(* allocation_log of formatted messages.  One action per public mutator:   *)
(* allocate_memory and deallocate_memory (the latter includes the call of  *)
(* _merge_free_blocks).  The arguments and the return value of the last    *)
(* call, and the block list as it was when that call started, are kept in  *)
(* call, ret and pre_blocks (pre_log for the log) so that the effect of a  *)
(* call can be stated as a predicate of one state.  status and log_view    *)
(* are the values a caller holds from its last get_memory_status and       *)
(* get_allocation_log calls.  threads holds, for each of two threads that  *)
(* call allocate_memory on the same object without a lock, how far its     *)
(* call has got and the locals of that call; overlapped records that a     *)
(* call started while another one was still running.                       *)
(***************************************************************************)
EXTENDS Integers, Sequences, FiniteSets

VARIABLES total_memory, memory_blocks, allocation_log, call, ret,
          pre_blocks, pre_log, status, log_view, threads, overlapped

vars == <<total_memory, memory_blocks, allocation_log, call, ret,
          pre_blocks, pre_log, status, log_view, threads, overlapped>>

(***************************************************************************)
(* Bounds of the exploration.                                              *)
(***************************************************************************)
MaxMemory == 4
MaxPid == 3
MaxSize == 3
MaxLog == 4
MaxViewLog == 4
MaxCallerEntries == 1
MaxInterleaveLog == 3

\* process_id of a block that has no owner (Python None).  Owners are
\* positive, so 0 is never the id of a caller.
None == 0

TotalSizes == (-1)..MaxMemory
Pids == 1..MaxPid
Sizes == (-1)..MaxSize

\* the arguments tried when the caller also holds views: one owner and one
\* size fewer, and 0 as the only invalid size
ViewPids == 1..(MaxPid - 1)
ViewSizes == 0..(MaxSize - 1)

(***************************************************************************)
(* MemoryBlock: the four attributes set by MemoryBlock.__init__.           *)
(***************************************************************************)
MemoryBlock(start_address, size, is_free, process_id) ==
    [start_address |-> start_address, size |-> size,
     is_free |-> is_free, process_id |-> process_id]

\* list.insert(i, x) with a 0-based position i, 0 <= i <= len(list)
Insert(list, i, x) ==
    SubSeq(list, 1, i) \o <<x>> \o SubSeq(list, i + 1, Len(list))

\* Pop that removes the element before position i
Pop_OffByOne(list, i) ==
    SubSeq(list, 1, i - 1) \o SubSeq(list, i + 1, Len(list))

\* list.pop(i) with a 0-based position i: the list without that element
Pop(list, i) ==
    SubSeq(list, 1, i) \o SubSeq(list, i + 2, Len(list))

(***************************************************************************)
(* The log messages, one operator per f-string of the source; the fields   *)
(* are the values interpolated into the text.                              *)
(***************************************************************************)
LogInvalidSize(process_id, size) ==
    [level |-> "ERROR", text |-> "Invalid size", size |-> size,
     process_id |-> process_id]

LogAlreadyAllocated(process_id) ==
    [level |-> "ERROR", text |-> "already has memory allocated",
     process_id |-> process_id]

LogAllocated(process_id, size, start_address) ==
    [level |-> "SUCCESS", text |-> "Allocated", size |-> size,
     process_id |-> process_id, start_address |-> start_address]

LogNoSuitableBlock(process_id, size) ==
    [level |-> "ERROR", text |-> "No suitable free block found",
     size |-> size, process_id |-> process_id]

LogDeallocated(process_id, size, start_address) ==
    [level |-> "SUCCESS", text |-> "Deallocated", size |-> size,
     process_id |-> process_id, start_address |-> start_address]

LogNoAllocatedMemory(process_id) ==
    [level |-> "ERROR", text |-> "has no allocated memory",
     process_id |-> process_id]

LogMerged(start_address, size) ==
    [level |-> "INFO", text |-> "Merged free blocks",
     start_address |-> start_address, size |-> size]

(***************************************************************************)
(* allocate_memory                                                         *)
(***************************************************************************)
\* InvalidSize with the bound off by one: size 0 is let through
InvalidSize_NegativeOnly(size) == size < 0

\* the guard "if size <= 0"
InvalidSize(size) == size <= 0

\* HasAllocation with the "not" of the test lost: an allocated block is
\* never recognised
HasAllocation_FreeOnly(blocks, process_id) ==
    \E k \in 1..Len(blocks) :
        blocks[k].is_free /\ blocks[k].process_id = process_id

\* HasAllocation that gives up after the first block of the list
HasAllocation_FirstBlockOnly(blocks, process_id) ==
    /\ Len(blocks) >= 1
    /\ ~blocks[1].is_free
    /\ blocks[1].process_id = process_id

\* the loop "Check if process already has memory allocated": TRUE when it
\* returns early
HasAllocation(blocks, process_id) ==
    \E k \in 1..Len(blocks) :
        ~blocks[k].is_free /\ blocks[k].process_id = process_id

\* Fits with a strict comparison: a block of exactly the requested size is
\* passed over
Fits_Strict(block, size) == block.is_free /\ block.size > size

\* the test of the first-fit loop on one block
Fits(block, size) == block.is_free /\ block.size >= size

\* FirstFitIndex as a best-fit search: the smallest free block that is
\* large enough, the lowest one among equals
FirstFitIndex_BestFit(blocks, size) ==
    IF \E k \in 1..Len(blocks) : blocks[k].is_free /\ blocks[k].size >= size
    THEN (CHOOSE k \in 1..Len(blocks) :
              /\ blocks[k].is_free /\ blocks[k].size >= size
              /\ \A j \in 1..Len(blocks) :
                    (blocks[j].is_free /\ blocks[j].size >= size)
                    => \/ blocks[j].size > blocks[k].size
                       \/ (blocks[j].size = blocks[k].size /\ j >= k)) - 1
    ELSE -1

\* the first-fit loop: 0-based index i of the first block that fits,
\* -1 when the loop ends without finding one
FirstFitIndex(blocks, size) ==
    IF \E k \in 1..Len(blocks) : Fits(blocks[k], size)
    THEN (CHOOSE k \in 1..Len(blocks) :
              /\ Fits(blocks[k], size)
              /\ \A j \in 1..(k - 1) : ~Fits(blocks[j], size)) - 1
    ELSE -1

\* AllocateBlock whose remainder block starts at the start of the split
\* block instead of start_address + size
AllocateBlock_RemainderAtBlockStart(blocks, i, process_id, size) ==
    LET block == blocks[i + 1]
        taken == [block EXCEPT !.is_free = FALSE, !.process_id = process_id]
    IN  IF block.size > size
        THEN LET remaining_size == block.size - size
                 new_block == MemoryBlock(block.start_address,
                                          remaining_size, TRUE, None)
             IN  Insert([blocks EXCEPT ![i + 1] = [taken EXCEPT !.size = size]],
                        i + 1, new_block)
        ELSE [blocks EXCEPT ![i + 1] = taken]

\* AllocateBlock that inserts the remainder block at i instead of i + 1,
\* that is before the allocated block
AllocateBlock_InsertBefore(blocks, i, process_id, size) ==
    LET block == blocks[i + 1]
        taken == [block EXCEPT !.is_free = FALSE, !.process_id = process_id]
    IN  IF block.size > size
        THEN LET remaining_size == block.size - size
                 new_block == MemoryBlock(block.start_address + size,
                                          remaining_size, TRUE, None)
             IN  Insert([blocks EXCEPT ![i + 1] = [taken EXCEPT !.size = size]],
                        i, new_block)
        ELSE [blocks EXCEPT ![i + 1] = taken]

\* AllocateBlock that splits whenever block.size >= size, also on an exact
\* fit
AllocateBlock_SplitOnExactFit(blocks, i, process_id, size) ==
    LET block == blocks[i + 1]
        taken == [block EXCEPT !.is_free = FALSE, !.process_id = process_id]
    IN  IF block.size >= size
        THEN LET remaining_size == block.size - size
                 new_block == MemoryBlock(block.start_address + size,
                                          remaining_size, TRUE, None)
             IN  Insert([blocks EXCEPT ![i + 1] = [taken EXCEPT !.size = size]],
                        i + 1, new_block)
        ELSE [blocks EXCEPT ![i + 1] = taken]

\* the body of the first-fit loop for the block at 0-based index i: mark it
\* allocated, and split it when it is larger than the request
AllocateBlock(blocks, i, process_id, size) ==
    LET block == blocks[i + 1]
        taken == [block EXCEPT !.is_free = FALSE, !.process_id = process_id]
    IN  IF block.size > size
        THEN LET remaining_size == block.size - size
                 new_block == MemoryBlock(block.start_address + size,
                                          remaining_size, TRUE, None)
             IN  Insert([blocks EXCEPT ![i + 1] = [taken EXCEPT !.size = size]],
                        i + 1, new_block)
        ELSE [blocks EXCEPT ![i + 1] = taken]

\* allocate_memory with the two argument checks in the other order: the
\* owner is looked up before the size is validated
allocate_memory_OwnerCheckFirst(process_id, size) ==
    /\ call' = [op |-> "allocate", process_id |-> process_id, size |-> size]
    /\ pre_blocks' = memory_blocks
    /\ pre_log' = allocation_log
    /\ UNCHANGED <<total_memory, status, log_view, threads, overlapped>>
    /\ IF HasAllocation(memory_blocks, process_id)
       THEN /\ allocation_log' =
                   Append(allocation_log, LogAlreadyAllocated(process_id))
            /\ ret' = FALSE
            /\ UNCHANGED memory_blocks
       ELSE IF InvalidSize(size)
       THEN /\ allocation_log' =
                   Append(allocation_log, LogInvalidSize(process_id, size))
            /\ ret' = FALSE
            /\ UNCHANGED memory_blocks
       ELSE LET i == FirstFitIndex(memory_blocks, size)
            IN  IF i >= 0
                THEN /\ memory_blocks' =
                            AllocateBlock(memory_blocks, i, process_id, size)
                     /\ allocation_log' =
                            Append(allocation_log,
                                   LogAllocated(process_id, size,
                                       memory_blocks[i + 1].start_address))
                     /\ ret' = TRUE
                ELSE /\ allocation_log' =
                            Append(allocation_log,
                                   LogNoSuitableBlock(process_id, size))
                     /\ ret' = FALSE
                     /\ UNCHANGED memory_blocks

allocate_memory(process_id, size) ==
    /\ call' = [op |-> "allocate", process_id |-> process_id, size |-> size]
    /\ pre_blocks' = memory_blocks
    /\ pre_log' = allocation_log
    /\ UNCHANGED <<total_memory, status, log_view, threads, overlapped>>
    /\ IF InvalidSize(size)
       THEN /\ allocation_log' =
                   Append(allocation_log, LogInvalidSize(process_id, size))
            /\ ret' = FALSE
            /\ UNCHANGED memory_blocks
       ELSE IF HasAllocation(memory_blocks, process_id)
       THEN /\ allocation_log' =
                   Append(allocation_log, LogAlreadyAllocated(process_id))
            /\ ret' = FALSE
            /\ UNCHANGED memory_blocks
       ELSE LET i == FirstFitIndex(memory_blocks, size)
            IN  IF i >= 0
                THEN /\ memory_blocks' =
                            AllocateBlock(memory_blocks, i, process_id, size)
                     /\ allocation_log' =
                            Append(allocation_log,
                                   LogAllocated(process_id, size,
                                       memory_blocks[i + 1].start_address))
                     /\ ret' = TRUE
                ELSE /\ allocation_log' =
                            Append(allocation_log,
                                   LogNoSuitableBlock(process_id, size))
                     /\ ret' = FALSE
                     /\ UNCHANGED memory_blocks

(***************************************************************************)
(* deallocate_memory and _merge_free_blocks                                *)
(***************************************************************************)
\* CanMerge that tests only the right block of the pair for being free
CanMerge_IgnoresCurrent(current, next_block) ==
    /\ next_block.is_free
    /\ current.start_address + current.size = next_block.start_address

\* the test of the merge loop on the pair at 0-based indexes i, i + 1
CanMerge(current, next_block) ==
    /\ current.is_free
    /\ next_block.is_free
    /\ current.start_address + current.size = next_block.start_address

\* MergedBlock that forgets to add the size of the removed block
MergedBlock_KeepsLeftSize(current, next_block) == current

\* "current.size += next_block.size": the left block of a merged pair
MergedBlock(current, next_block) ==
    [current EXCEPT !.size = current.size + next_block.size]

\* the while loop of _merge_free_blocks from index i on; st holds the block
\* list and the log.  After a merge the index is not advanced.
RECURSIVE MergeLoop(_, _)
MergeLoop(st, i) ==
    IF i < Len(st.blocks) - 1
    THEN LET current == st.blocks[i + 1]
             next_block == st.blocks[i + 2]
         IN  IF CanMerge(current, next_block)
             THEN LET merged == MergedBlock(current, next_block)
                  IN  MergeLoop(
                          [blocks |-> Pop([st.blocks EXCEPT ![i + 1] = merged],
                                          i + 1),
                           log |-> Append(st.log,
                                      LogMerged(merged.start_address,
                                                merged.size))],
                          i)
             ELSE MergeLoop(st, i + 1)
    ELSE st

\* the merge loop with the index advanced after every pair, merged or not
RECURSIVE MergeLoopAdvancing(_, _)
MergeLoopAdvancing(st, i) ==
    IF i < Len(st.blocks) - 1
    THEN LET current == st.blocks[i + 1]
             next_block == st.blocks[i + 2]
         IN  IF CanMerge(current, next_block)
             THEN LET merged == MergedBlock(current, next_block)
                  IN  MergeLoopAdvancing(
                          [blocks |-> Pop([st.blocks EXCEPT ![i + 1] = merged],
                                          i + 1),
                           log |-> Append(st.log,
                                      LogMerged(merged.start_address,
                                                merged.size))],
                          i + 1)
             ELSE MergeLoopAdvancing(st, i + 1)
    ELSE st

\* _merge_free_blocks as a single pass that advances after a merge
MergeFreeBlocks_AdvanceAfterMerge(blocks, log) ==
    MergeLoopAdvancing([blocks |-> blocks, log |-> log], 0)

\* _merge_free_blocks: the loop started at i = 0
MergeFreeBlocks(blocks, log) ==
    MergeLoop([blocks |-> blocks, log |-> log], 0)

\* OwnedIndex without the comparison of process_id: the first allocated
\* block, whoever owns it
OwnedIndex_IgnoresOwner(blocks, process_id) ==
    IF \E k \in 1..Len(blocks) : ~blocks[k].is_free
    THEN (CHOOSE k \in 1..Len(blocks) :
              /\ ~blocks[k].is_free
              /\ \A j \in 1..(k - 1) : blocks[j].is_free) - 1
    ELSE -1

\* the search loop of deallocate_memory: 0-based index of the first block
\* allocated to process_id, -1 when there is none
OwnedIndex(blocks, process_id) ==
    IF HasAllocation(blocks, process_id)
    THEN (CHOOSE k \in 1..Len(blocks) :
              /\ ~blocks[k].is_free /\ blocks[k].process_id = process_id
              /\ \A j \in 1..(k - 1) :
                    ~(~blocks[j].is_free /\ blocks[j].process_id = process_id))
         - 1
    ELSE -1

\* FreeBlock that sets is_free but leaves the old process_id in the block
FreeBlock_KeepsProcessId(blocks, i) ==
    [blocks EXCEPT ![i + 1] = [@ EXCEPT !.is_free = TRUE]]

\* FreeBlock that resets process_id but leaves is_free False
FreeBlock_OnlyClearsOwner(blocks, i) ==
    [blocks EXCEPT ![i + 1] = [@ EXCEPT !.process_id = None]]

\* "Free the block": the block at index i with is_free and process_id reset
FreeBlock(blocks, i) ==
    [blocks EXCEPT ![i + 1] = [@ EXCEPT !.is_free = TRUE, !.process_id = None]]

\* deallocate_memory that merges first and writes its own SUCCESS entry
\* after the merge reports
deallocate_memory_LogAfterMerge(process_id) ==
    /\ call' = [op |-> "deallocate", process_id |-> process_id, size |-> None]
    /\ pre_blocks' = memory_blocks
    /\ pre_log' = allocation_log
    /\ UNCHANGED <<total_memory, status, log_view, threads, overlapped>>
    /\ LET i == OwnedIndex(memory_blocks, process_id)
       IN  IF i >= 0
           THEN LET block == memory_blocks[i + 1]
                    st == MergeFreeBlocks(FreeBlock(memory_blocks, i),
                                          allocation_log)
                IN  /\ memory_blocks' = st.blocks
                    /\ allocation_log' =
                          Append(st.log,
                                 LogDeallocated(process_id, block.size,
                                                block.start_address))
                    /\ ret' = TRUE
           ELSE /\ allocation_log' =
                       Append(allocation_log, LogNoAllocatedMemory(process_id))
                /\ ret' = FALSE
                /\ UNCHANGED memory_blocks

deallocate_memory(process_id) ==
    /\ call' = [op |-> "deallocate", process_id |-> process_id, size |-> None]
    /\ pre_blocks' = memory_blocks
    /\ pre_log' = allocation_log
    /\ UNCHANGED <<total_memory, status, log_view, threads, overlapped>>
    /\ LET i == OwnedIndex(memory_blocks, process_id)
       IN  IF i >= 0
           THEN LET block == memory_blocks[i + 1]
                    st == MergeFreeBlocks(
                              FreeBlock(memory_blocks, i),
                              Append(allocation_log,
                                     LogDeallocated(process_id, block.size,
                                                    block.start_address)))
                IN  /\ memory_blocks' = st.blocks
                    /\ allocation_log' = st.log
                    /\ ret' = TRUE
           ELSE /\ allocation_log' =
                       Append(allocation_log, LogNoAllocatedMemory(process_id))
                /\ ret' = FALSE
                /\ UNCHANGED memory_blocks

(***************************************************************************)
(* The read operations.  A Python list is an object: a value handed to a   *)
(* caller is either the allocator's own list (live) or a separate list     *)
(* with its own items.                                                     *)
(***************************************************************************)
\* a reference to the allocator's own list object
LiveList == [live |-> TRUE, items |-> <<>>]

\* list.copy(): a new list object with the same items
CopyOf(list) == [live |-> FALSE, items |-> list]

\* the blocks seen through a reference to a block list
BlocksOf(ref) == IF ref.live THEN memory_blocks ELSE ref.items

\* the entries seen through a reference to a log list
EntriesOf(ref) == IF ref.live THEN allocation_log ELSE ref.items

\* sum(block.size for block in blocks if block.is_free)
RECURSIVE TotalFree(_)
TotalFree(blocks) ==
    IF blocks = <<>>
    THEN 0
    ELSE (IF Head(blocks).is_free THEN Head(blocks).size ELSE 0)
         + TotalFree(Tail(blocks))

\* sum(block.size for block in blocks if not block.is_free)
RECURSIVE TotalAllocated(_)
TotalAllocated(blocks) ==
    IF blocks = <<>>
    THEN 0
    ELSE (IF Head(blocks).is_free THEN 0 ELSE Head(blocks).size)
         + TotalAllocated(Tail(blocks))

\* free_blocks = [block for block in blocks if block.is_free]
IsFreeBlock(block) == block.is_free

FreeBlocks(blocks) == SelectSeq(blocks, IsFreeBlock)

\* len(free_blocks), reported as free_block_count
FreeBlockCount(blocks) == Len(FreeBlocks(blocks))

\* ExternalFragmentation without the guard for an empty free list
ExternalFragmentation_NoGuard(blocks) == Len(FreeBlocks(blocks)) - 1

\* len(free_blocks) - (1 if free_blocks else 0)
ExternalFragmentation(blocks) ==
    Len(FreeBlocks(blocks)) - (IF FreeBlocks(blocks) # <<>> THEN 1 ELSE 0)

\* get_memory_status: the dictionary it returns.  'blocks' is
\* self.memory_blocks itself, not a copy.  memory_utilization is kept as the
\* fraction total_allocated / total_memory that the code multiplies by 100.
\* The division raises ZeroDivisionError when total_memory is 0: then
\* nothing is returned and nothing changes, so the step is not enabled.
\* blocks_at_return records what the list held when the call returned.
get_memory_status ==
    /\ total_memory # 0
    /\ status' =
          [held |-> TRUE,
           blocks |-> LiveList,
           total_memory |-> total_memory,
           total_free |-> TotalFree(memory_blocks),
           total_allocated |-> TotalAllocated(memory_blocks),
           free_block_count |-> FreeBlockCount(memory_blocks),
           external_fragmentation |-> ExternalFragmentation(memory_blocks),
           internal_fragmentation |-> 0,
           memory_utilization |->
               [numerator |-> TotalAllocated(memory_blocks),
                denominator |-> total_memory],
           blocks_at_return |-> memory_blocks]
    /\ UNCHANGED <<total_memory, memory_blocks, allocation_log, call, ret,
                   pre_blocks, pre_log, log_view, threads, overlapped>>

\* get_allocation_log that returns self.allocation_log itself
get_allocation_log_NoCopy ==
    /\ log_view' = [held |-> TRUE,
                    list |-> LiveList,
                    at_return |-> allocation_log]
    /\ UNCHANGED <<total_memory, memory_blocks, allocation_log, call, ret,
                   pre_blocks, pre_log, status, threads, overlapped>>

\* get_allocation_log: returns self.allocation_log.copy().  at_return
\* records the entries the returned list held when the call returned.
get_allocation_log ==
    /\ log_view' = [held |-> TRUE,
                    list |-> CopyOf(allocation_log),
                    at_return |-> allocation_log]
    /\ UNCHANGED <<total_memory, memory_blocks, allocation_log, call, ret,
                   pre_blocks, pre_log, status, threads, overlapped>>

\* an entry that only a caller writes
CallerEntry == [level |-> "CALLER", text |-> "appended by the caller"]

IsCallerEntry(entry) == entry.level = "CALLER"

\* the caller appends an entry to the list it got from get_allocation_log;
\* the append goes to the list object the caller holds
caller_appends_to_log_view ==
    /\ log_view.held
    /\ Len(SelectSeq(EntriesOf(log_view.list), IsCallerEntry))
          < MaxCallerEntries
    /\ IF log_view.list.live
       THEN /\ allocation_log' = Append(allocation_log, CallerEntry)
            /\ UNCHANGED log_view
       ELSE /\ log_view' =
                  [log_view EXCEPT
                      !.list.items = Append(@, CallerEntry)]
            /\ UNCHANGED allocation_log
    /\ UNCHANGED <<total_memory, memory_blocks, call, ret, pre_blocks,
                   pre_log, status, threads, overlapped>>

(***************************************************************************)
(* allocate_memory run by two threads on one manager, without a lock.      *)
(* A thread executes one source line per step and may be suspended before  *)
(* every line that reads or writes the block list, a block or the log;     *)
(* each iteration of the two loops is a step of its own.  Lines that touch *)
(* only locals (51, 70's result, 74-78, the return statements) belong to   *)
(* the step of the line before them.  threads[t].pc is the line the thread *)
(* t executes next.  A thread keeps its locals while suspended: the        *)
(* position it of the loop's iterator in the list, the index i of          *)
(* enumerate, remaining_size, and block, a reference to a MemoryBlock      *)
(* object, held here as the position that object has in the list (an       *)
(* insert in front of it moves it with its object).  Locals that are not   *)
(* read again are reset.                                                   *)
(***************************************************************************)
Threads == {"T1", "T2"}

\* a thread that is not inside allocate_memory
Idle == [pc |-> "idle", process_id |-> None, size |-> 0, it |-> 0, i |-> -1,
         block |-> 0, remaining_size |-> 0]

InFlight(t) == threads[t].pc # "idle"

\* the thread returns result from its call: the call and its result are
\* recorded with the lists as they were at the start of this last step
Return(process_id, size, result) ==
    /\ call' = [op |-> "allocate", process_id |-> process_id, size |-> size]
    /\ ret' = result
    /\ pre_blocks' = memory_blocks
    /\ pre_log' = allocation_log

\* a step of thread t that only moves the thread on
Goto(t, next) ==
    /\ threads' = [threads EXCEPT ![t] = next]
    /\ UNCHANGED <<total_memory, memory_blocks, allocation_log, call, ret,
                   pre_blocks, pre_log, status, log_view, overlapped>>

\* a step of thread t that writes the block list and moves on
Write(t, blocks, next) ==
    /\ memory_blocks' = blocks
    /\ threads' = [threads EXCEPT ![t] = next]
    /\ UNCHANGED <<total_memory, allocation_log, call, ret, pre_blocks,
                   pre_log, status, log_view, overlapped>>

\* the last step of a call of thread t: the log entry and the return
LogAndReturn(t, entry, result) ==
    /\ allocation_log' = Append(allocation_log, entry)
    /\ Return(threads[t].process_id, threads[t].size, result)
    /\ threads' = [threads EXCEPT ![t] = Idle]
    /\ UNCHANGED <<total_memory, memory_blocks, status, log_view, overlapped>>

\* HeldBy that looks at free blocks: no block ever passes
HeldBy_FreeBlock(block, process_id) ==
    block.is_free /\ block.process_id = process_id

\* the test of the duplicate-owner loop on one block
HeldBy(block, process_id) ==
    ~block.is_free /\ block.process_id = process_id

\* lines 51-53: the call starts; an invalid size is logged and refused at
\* once, any other call goes to the duplicate-owner loop
allocate_memory_51(t, process_id, size) ==
    /\ threads[t].pc = "idle"
    /\ overlapped' = (overlapped \/ \E u \in Threads \ {t} : InFlight(u))
    /\ UNCHANGED <<total_memory, memory_blocks, status, log_view>>
    /\ IF InvalidSize(size)
       THEN /\ allocation_log' =
                   Append(allocation_log, LogInvalidSize(process_id, size))
            /\ Return(process_id, size, FALSE)
            /\ UNCHANGED threads
       ELSE /\ threads' = [threads EXCEPT ![t] =
                              [Idle EXCEPT !.pc = "56",
                                           !.process_id = process_id,
                                           !.size = size]]
            /\ UNCHANGED <<allocation_log, call, ret, pre_blocks, pre_log>>

\* line 56: the iterator of the duplicate-owner loop yields the element at
\* its position, or the loop ends
allocate_memory_56(t) ==
    /\ threads[t].pc = "56"
    /\ LET me == threads[t]
       IN  IF me.it < Len(memory_blocks)
           THEN Goto(t, [me EXCEPT !.pc = "57", !.block = me.it + 1,
                                   !.it = me.it + 1])
           ELSE Goto(t, [me EXCEPT !.pc = "62", !.it = 0])

\* line 57: the test of the duplicate-owner loop
allocate_memory_57(t) ==
    /\ threads[t].pc = "57"
    /\ LET me == threads[t]
       IN  IF HeldBy(memory_blocks[me.block], me.process_id)
           THEN Goto(t, [me EXCEPT !.pc = "58", !.block = 0, !.it = 0])
           ELSE Goto(t, [me EXCEPT !.pc = "56", !.block = 0])

\* lines 58-59
allocate_memory_58(t) ==
    /\ threads[t].pc = "58"
    /\ LogAndReturn(t, LogAlreadyAllocated(threads[t].process_id), FALSE)

\* line 62: enumerate yields the next index and element, or the loop ends
allocate_memory_62(t) ==
    /\ threads[t].pc = "62"
    /\ LET me == threads[t]
       IN  IF me.it < Len(memory_blocks)
           THEN Goto(t, [me EXCEPT !.pc = "63", !.i = me.it,
                                   !.block = me.it + 1, !.it = me.it + 1])
           ELSE Goto(t, [me EXCEPT !.pc = "87", !.it = 0])

\* line 63: the test of the first-fit loop
allocate_memory_63(t) ==
    /\ threads[t].pc = "63"
    /\ LET me == threads[t]
       IN  IF Fits(memory_blocks[me.block], me.size)
           THEN Goto(t, [me EXCEPT !.pc = "65", !.it = 0])
           ELSE Goto(t, [me EXCEPT !.pc = "62", !.i = -1, !.block = 0])

\* line 65: block.is_free = False
allocate_memory_65(t) ==
    /\ threads[t].pc = "65"
    /\ LET me == threads[t]
       IN  Write(t, [memory_blocks EXCEPT ![me.block].is_free = FALSE],
                 [me EXCEPT !.pc = "66"])

\* line 66: block.process_id = process_id
allocate_memory_66(t) ==
    /\ threads[t].pc = "66"
    /\ LET me == threads[t]
       IN  Write(t, [memory_blocks EXCEPT
                        ![me.block].process_id = me.process_id],
                 [me EXCEPT !.pc = "69"])

\* line 69: if block.size > size
allocate_memory_69(t) ==
    /\ threads[t].pc = "69"
    /\ LET me == threads[t]
       IN  IF memory_blocks[me.block].size > me.size
           THEN Goto(t, [me EXCEPT !.pc = "70"])
           ELSE Goto(t, [me EXCEPT !.pc = "81", !.i = -1])

\* line 70: remaining_size = block.size - size
allocate_memory_70(t) ==
    /\ threads[t].pc = "70"
    /\ LET me == threads[t]
       IN  Goto(t, [me EXCEPT !.pc = "71",
                              !.remaining_size =
                                  memory_blocks[me.block].size - me.size])

\* line 71: block.size = size (and lines 74-78, which build new_block from
\* locals and from start_address, an attribute that is never written)
allocate_memory_71(t) ==
    /\ threads[t].pc = "71"
    /\ LET me == threads[t]
       IN  Write(t, [memory_blocks EXCEPT ![me.block].size = me.size],
                 [me EXCEPT !.pc = "79"])

\* the reference held as position pos after an insert at the 0-based
\* index at: the objects from there on have moved by one
AfterInsert(pos, at) == IF pos >= at + 1 THEN pos + 1 ELSE pos

\* line 79: self.memory_blocks.insert(i + 1, new_block), with the new_block
\* of lines 74-78
allocate_memory_79(t) ==
    /\ threads[t].pc = "79"
    /\ LET me == threads[t]
           block == memory_blocks[me.block]
           new_block == MemoryBlock(block.start_address + me.size,
                                    me.remaining_size, TRUE, None)
       IN  /\ memory_blocks' = Insert(memory_blocks, me.i + 1, new_block)
           /\ threads' =
                 [u \in Threads |->
                     IF u = t
                     THEN [me EXCEPT !.pc = "81", !.i = -1,
                                     !.remaining_size = 0,
                                     !.block = AfterInsert(@, me.i + 1)]
                     ELSE [threads[u] EXCEPT
                              !.block = AfterInsert(@, me.i + 1)]]
    /\ UNCHANGED <<total_memory, allocation_log, call, ret, pre_blocks,
                   pre_log, status, log_view, overlapped>>

\* lines 81-85
allocate_memory_81(t) ==
    /\ threads[t].pc = "81"
    /\ LET me == threads[t]
       IN  LogAndReturn(t, LogAllocated(me.process_id, me.size,
                               memory_blocks[me.block].start_address),
                        TRUE)

\* lines 87-91
allocate_memory_87(t) ==
    /\ threads[t].pc = "87"
    /\ LogAndReturn(t, LogNoSuitableBlock(threads[t].process_id,
                                          threads[t].size), FALSE)

(***************************************************************************)
(* Construction and the specifications                                     *)
(***************************************************************************)
\* FirstFitMemoryManager.__init__(total): one free block spanning the whole
\* space and an empty log.  The constructor accepts any integer.  No status
\* and no log view have been handed out yet.
Construct(total) ==
    /\ total_memory = total
    /\ memory_blocks = <<MemoryBlock(0, total, TRUE, None)>>
    /\ allocation_log = <<>>
    /\ call = [op |-> "init", process_id |-> None, size |-> total]
    /\ ret = TRUE
    /\ pre_blocks = <<>>
    /\ pre_log = <<>>
    /\ status = [held |-> FALSE]
    /\ log_view = [held |-> FALSE]
    /\ threads = [t \in Threads |-> Idle]
    /\ overlapped = FALSE

Init == \E total \in TotalSizes : Construct(total)

\* any allocate_memory and deallocate_memory calls, until the log holds
\* MaxLog entries
Next ==
    \/ /\ Len(allocation_log) < MaxLog
       /\ \E process_id \in Pids, size \in Sizes :
              allocate_memory(process_id, size)
    \/ /\ Len(allocation_log) < MaxLog
       /\ \E process_id \in Pids : deallocate_memory(process_id)

Spec == Init /\ [][Next]_vars

\* the same calls mixed with a caller that asks for the status and the log
\* and keeps what it got, until the log holds MaxViewLog entries
NextViews ==
    \/ /\ Len(allocation_log) < MaxViewLog
       /\ \E process_id \in ViewPids, size \in ViewSizes :
              allocate_memory(process_id, size)
    \/ /\ Len(allocation_log) < MaxViewLog
       /\ \E process_id \in ViewPids : deallocate_memory(process_id)
    \/ get_memory_status
    \/ get_allocation_log
    \/ caller_appends_to_log_view

SpecViews == Init /\ [][NextViews]_vars

(***************************************************************************)
(* test_fragmentation_scenario (src/test_memory_manager.py): a 1000-unit   *)
(* space, five 100-unit allocations for owners 1..5, owners 2 and 4        *)
(* deallocated, then 250 units requested for owner 6, then 80 units for    *)
(* owner 7 and 90 units for owner 8.  The specification issues each of     *)
(* these ten calls once, in the four stages of the test; the order of the  *)
(* test is one of its behaviours.                                          *)
(***************************************************************************)
ScenarioTotal == 1000
ScenarioUnit == 100
ScenarioRequest == 250

AllocateCall(process_id, size) ==
    [op |-> "allocate", process_id |-> process_id, size |-> size]

DeallocateCall(process_id) ==
    [op |-> "deallocate", process_id |-> process_id, size |-> None]

\* the ten calls of the test, in the order of the test (lines 76-80, 86-87,
\* 95 and 100-101)
ScenarioCalls ==
    << AllocateCall(1, ScenarioUnit), AllocateCall(2, ScenarioUnit),
       AllocateCall(3, ScenarioUnit), AllocateCall(4, ScenarioUnit),
       AllocateCall(5, ScenarioUnit),
       DeallocateCall(2), DeallocateCall(4),
       AllocateCall(6, ScenarioRequest),
       AllocateCall(7, 80), AllocateCall(8, 90) >>

\* the stage of the test each call belongs to: the five allocations, the
\* two deallocations, the large request, the two small requests
ScenarioStage == << 1, 1, 1, 1, 1, 2, 2, 3, 4, 4 >>

\* the operation that wrote a log entry: every call writes exactly one
\* entry that is not a merge report
EntryOp(entry) ==
    IF entry.level = "INFO" THEN "merge"
    ELSE IF entry.text \in {"Deallocated", "has no allocated memory"}
    THEN "deallocate"
    ELSE "allocate"

\* the log shows that the call c has been made
Issued(c) ==
    \E n \in 1..Len(allocation_log) :
        /\ EntryOp(allocation_log[n]) = c.op
        /\ allocation_log[n].process_id = c.process_id

\* the call n of the test can be made: it has not been made, and the calls
\* of every earlier stage have
MayIssue(n) ==
    /\ ~Issued(ScenarioCalls[n])
    /\ \A m \in 1..Len(ScenarioCalls) :
          ScenarioStage[m] < ScenarioStage[n] => Issued(ScenarioCalls[m])

InitScenario == Construct(ScenarioTotal)

\* the calls of the test, each made once, stage after stage as in the
\* test.  The test makes the calls of a stage in one order; here the calls
\* of one stage come in any order, the order of the test among them
NextScenario ==
    \/ \E n \in 1..Len(ScenarioCalls) :
          /\ ScenarioCalls[n].op = "allocate"
          /\ MayIssue(n)
          /\ allocate_memory(ScenarioCalls[n].process_id,
                             ScenarioCalls[n].size)
    \/ \E n \in 1..Len(ScenarioCalls) :
          /\ ScenarioCalls[n].op = "deallocate"
          /\ MayIssue(n)
          /\ deallocate_memory(ScenarioCalls[n].process_id)

SpecScenario == InitScenario /\ [][NextScenario]_vars

\* two threads that call allocate_memory at any time and are suspended at
\* will between their steps; every call started can still log its entry
\* within MaxInterleaveLog entries.  The threads make no other call
NextInterleave ==
    \/ /\ Len(allocation_log) + Cardinality({u \in Threads : InFlight(u)})
            < MaxInterleaveLog
       /\ \E t \in Threads, process_id \in ViewPids, size \in ViewSizes :
              allocate_memory_51(t, process_id, size)
    \/ \E t \in Threads : allocate_memory_56(t)
    \/ \E t \in Threads : allocate_memory_57(t)
    \/ \E t \in Threads : allocate_memory_58(t)
    \/ \E t \in Threads : allocate_memory_62(t)
    \/ \E t \in Threads : allocate_memory_63(t)
    \/ \E t \in Threads : allocate_memory_65(t)
    \/ \E t \in Threads : allocate_memory_66(t)
    \/ \E t \in Threads : allocate_memory_69(t)
    \/ \E t \in Threads : allocate_memory_70(t)
    \/ \E t \in Threads : allocate_memory_71(t)
    \/ \E t \in Threads : allocate_memory_79(t)
    \/ \E t \in Threads : allocate_memory_81(t)
    \/ \E t \in Threads : allocate_memory_87(t)

SpecInterleave == Init /\ [][NextInterleave]_vars

(***************************************************************************)
(* Properties.  They are stated on the block list itself and on the        *)
(* record of the last call, not through the operators of the model above.  *)
(***************************************************************************)
Owned(block, owner) == ~block.is_free /\ block.process_id = owner

Owns(blocks, owner) == \E k \in 1..Len(blocks) : Owned(blocks[k], owner)

FreeWithRoom(block, size) == block.is_free /\ block.size >= size

\* k is the position of the lowest-address free block with room for size
LowestWithRoom(blocks, k, size) ==
    /\ k \in 1..Len(blocks)
    /\ FreeWithRoom(blocks[k], size)
    /\ \A j \in 1..Len(blocks) :
          (blocks[j].is_free
             /\ blocks[j].start_address < blocks[k].start_address)
          => blocks[j].size < size

AllocateCalled == call.op = "allocate"

\* the last call was an allocate that passed both argument checks
AllocateAttempted ==
    /\ AllocateCalled
    /\ call.size > 0
    /\ ~Owns(pre_blocks, call.process_id)

AllocateSucceeded == AllocateAttempted /\ ret = TRUE

\* C1 (I1): for a positive total_memory the block list is ordered by
\* ascending start, begins at address 0, is gapless and ends at
\* total_memory, after construction and after every call.
C1_Partition ==
    total_memory > 0 =>
        /\ Len(memory_blocks) >= 1
        /\ memory_blocks[1].start_address = 0
        /\ \A k \in 1..(Len(memory_blocks) - 1) :
              /\ memory_blocks[k].start_address
                    < memory_blocks[k + 1].start_address
              /\ memory_blocks[k].start_address + memory_blocks[k].size
                    = memory_blocks[k + 1].start_address
        /\ memory_blocks[Len(memory_blocks)].start_address
              + memory_blocks[Len(memory_blocks)].size = total_memory

\* C1 witness: a split list of four blocks left by a successful deallocate
\* that followed allocations
C1_Witness ==
    /\ total_memory > 0
    /\ call.op = "deallocate"
    /\ ret = TRUE
    /\ Len(memory_blocks) >= 3
    /\ \E k \in 1..Len(memory_blocks) : ~memory_blocks[k].is_free

\* C2 (I2): no two adjacent blocks of the list are both free, after
\* construction and after every call, successful or failing.
C2_NoAdjacentFree ==
    \A k \in 1..(Len(memory_blocks) - 1) :
        ~(memory_blocks[k].is_free /\ memory_blocks[k + 1].is_free)

\* C2 witness: a deallocate freed a block lying between two free blocks,
\* so that two merges were needed
C2_Witness ==
    /\ call.op = "deallocate"
    /\ ret = TRUE
    /\ Len(memory_blocks) = Len(pre_blocks) - 2

\* C3 (I3): for every owner id at most one block of the list is owned by
\* that id.
C3_OneBlockPerOwner ==
    \A j, k \in 1..Len(memory_blocks) :
        (j # k /\ ~memory_blocks[j].is_free /\ ~memory_blocks[k].is_free)
        => memory_blocks[j].process_id # memory_blocks[k].process_id

\* C3 witness: an owner that holds a block asked for a second one while
\* another owner also holds a block and free room was available
C3_Witness ==
    /\ AllocateCalled
    /\ call.size > 0
    /\ Owns(memory_blocks, call.process_id)
    /\ Owns(pre_blocks, call.process_id)
    /\ \E other \in Pids :
          other # call.process_id /\ Owns(memory_blocks, other)
    /\ \E k \in 1..Len(memory_blocks) :
          FreeWithRoom(memory_blocks[k], call.size)

\* C4 (I4): for a positive total_memory every block of the list has
\* size > 0; a split leaves no zero-size remainder and an exact fit adds no
\* block.
C4_PositiveSizes ==
    total_memory > 0 =>
        \A k \in 1..Len(memory_blocks) : memory_blocks[k].size > 0

\* C4 witness: an allocation that took the whole of a free block (exact
\* fit) in a list that an earlier split had already cut
C4_Witness ==
    /\ total_memory > 0
    /\ AllocateSucceeded
    /\ Len(memory_blocks) = Len(pre_blocks)
    /\ Len(memory_blocks) >= 2

\* C5 (first fit): when allocate_memory succeeds, the owner's block starts
\* where the lowest-address free block with room for the request started
\* before the call; every free block below it was too small.
C5_FirstFit ==
    AllocateSucceeded =>
        \E k \in 1..Len(pre_blocks) :
            /\ LowestWithRoom(pre_blocks, k, call.size)
            /\ \E m \in 1..Len(memory_blocks) :
                  /\ Owned(memory_blocks[m], call.process_id)
                  /\ memory_blocks[m].start_address
                        = pre_blocks[k].start_address

\* C5 witness: the request succeeded when two free blocks at different
\* addresses both had room for it
C5_Witness ==
    /\ AllocateSucceeded
    /\ \E j, k \in 1..Len(pre_blocks) :
          /\ j < k
          /\ FreeWithRoom(pre_blocks[j], call.size)
          /\ FreeWithRoom(pre_blocks[k], call.size)

\* C6 (out of memory): for a positive size and an owner holding no block,
\* allocate_memory returns False exactly when no free block has room for
\* the request, and then the block list is unchanged.
C6_OutOfMemory ==
    AllocateAttempted =>
        /\ (ret = FALSE) <=>
              ~\E k \in 1..Len(pre_blocks) :
                    FreeWithRoom(pre_blocks[k], call.size)
        /\ (ret = FALSE) => memory_blocks = pre_blocks

\* C6 witness: the request failed although the free units in total would
\* have covered it (they were spread over several smaller blocks)
C6_Witness ==
    /\ AllocateAttempted
    /\ ret = FALSE
    /\ TotalFree(pre_blocks) >= call.size
    /\ memory_blocks = pre_blocks

\* C7 (split): when the selected free block [s, s+n) is larger than the
\* request, it is replaced by the owner's block [s, s+size) followed by a
\* free block [s+size, s+n); one block more, all other blocks unchanged.
C7_Split ==
    AllocateSucceeded =>
        \A k \in 1..Len(pre_blocks) :
            (LowestWithRoom(pre_blocks, k, call.size)
               /\ pre_blocks[k].size > call.size)
            => /\ Len(memory_blocks) = Len(pre_blocks) + 1
               /\ memory_blocks[k] =
                     MemoryBlock(pre_blocks[k].start_address, call.size,
                                 FALSE, call.process_id)
               /\ memory_blocks[k + 1] =
                     MemoryBlock(pre_blocks[k].start_address + call.size,
                                 pre_blocks[k].size - call.size, TRUE, None)
               /\ \A j \in 1..(k - 1) : memory_blocks[j] = pre_blocks[j]
               /\ \A j \in (k + 1)..Len(pre_blocks) :
                     memory_blocks[j + 1] = pre_blocks[j]

\* C7 witness: a split of a free block that is followed by other blocks,
\* which the insertion has to shift
C7_Witness ==
    /\ AllocateSucceeded
    /\ \E k \in 1..(Len(pre_blocks) - 1) :
          /\ LowestWithRoom(pre_blocks, k, call.size)
          /\ pre_blocks[k].size > call.size
    /\ Len(memory_blocks) = Len(pre_blocks) + 1

\* C8 (exact fit): when the selected free block has exactly the requested
\* size it is marked owned in place, nothing else changes and no block is
\* created; a request for exactly the remaining free units leaves
\* total_free = 0.
C8_ExactFit ==
    AllocateSucceeded =>
        /\ \A k \in 1..Len(pre_blocks) :
              (LowestWithRoom(pre_blocks, k, call.size)
                 /\ pre_blocks[k].size = call.size)
              => memory_blocks =
                    [pre_blocks EXCEPT
                        ![k] = MemoryBlock(pre_blocks[k].start_address,
                                           pre_blocks[k].size, FALSE,
                                           call.process_id)]
        /\ TotalFree(pre_blocks) = call.size => TotalFree(memory_blocks) = 0

\* C8 witness: the request took exactly the remaining free units, which
\* were the last block of a list of several blocks
C8_Witness ==
    /\ AllocateSucceeded
    /\ TotalFree(pre_blocks) = call.size
    /\ Len(pre_blocks) >= 2
    /\ Len(memory_blocks) = Len(pre_blocks)
    /\ TotalFree(memory_blocks) = 0

\* C9 (duplicate owner): allocate_memory with size > 0 for an owner that
\* owns a block returns False and leaves the block list unchanged, whether
\* or not a free block has room; the log grows by the one error entry.
C9_DuplicateOwner ==
    (AllocateCalled /\ call.size > 0 /\ Owns(pre_blocks, call.process_id))
    => /\ ret = FALSE
       /\ memory_blocks = pre_blocks
       /\ allocation_log =
             Append(pre_log, LogAlreadyAllocated(call.process_id))

\* C9 witness: the duplicate request was rejected while a free block with
\* room for it existed
C9_Witness ==
    /\ AllocateCalled
    /\ call.size > 0
    /\ Owns(pre_blocks, call.process_id)
    /\ \E k \in 1..Len(pre_blocks) : FreeWithRoom(pre_blocks[k], call.size)
    /\ ret = FALSE
    /\ Len(allocation_log) = Len(pre_log) + 1

\* C10 (invalid size): allocate_memory with size <= 0 returns False with
\* the invalid-size error and leaves the block list unchanged, also when
\* the owner already owns a block (the size check comes first).
C10_InvalidSize ==
    (AllocateCalled /\ call.size <= 0)
    => /\ ret = FALSE
       /\ memory_blocks = pre_blocks
       /\ allocation_log =
             Append(pre_log, LogInvalidSize(call.process_id, call.size))

\* C10 witness: a request of size 0 or less by an owner that holds a block
C10_Witness ==
    /\ AllocateCalled
    /\ call.size <= 0
    /\ Owns(pre_blocks, call.process_id)
    /\ ret = FALSE

DeallocateCalled == call.op = "deallocate"

\* the last call was a deallocate for an owner that held a block
DeallocateOfOwner == DeallocateCalled /\ Owns(pre_blocks, call.process_id)

\* C11 (unknown owner): deallocate_memory for an owner that owns no block
\* returns False, leaves the block list as it was (no merge) and appends
\* the one error entry to the log.
C11_UnknownOwner ==
    (DeallocateCalled /\ ~Owns(pre_blocks, call.process_id))
    => /\ ret = FALSE
       /\ memory_blocks = pre_blocks
       /\ allocation_log =
             Append(pre_log, LogNoAllocatedMemory(call.process_id))

\* C11 witness: the unknown owner was refused while other owners held
\* blocks
C11_Witness ==
    /\ DeallocateCalled
    /\ ~Owns(pre_blocks, call.process_id)
    /\ \E k \in 1..Len(pre_blocks) : ~pre_blocks[k].is_free
    /\ ret = FALSE

\* the block list expected after freeing the block at position k of blocks:
\* the block and its free neighbours, if any, become one free block
AfterFreeing(blocks, k) ==
    LET lo == IF k > 1 /\ blocks[k - 1].is_free THEN k - 1 ELSE k
        hi == IF k < Len(blocks) /\ blocks[k + 1].is_free THEN k + 1 ELSE k
        total == blocks[k].size
                 + (IF lo < k THEN blocks[lo].size ELSE 0)
                 + (IF hi > k THEN blocks[hi].size ELSE 0)
    IN  SubSeq(blocks, 1, lo - 1)
        \o << MemoryBlock(blocks[lo].start_address, total, TRUE, None) >>
        \o SubSeq(blocks, hi + 1, Len(blocks))

\* C12 (successful deallocate): the owner owns no block afterwards, its
\* former block and the free neighbours on either side are one free block
\* that starts at the leftmost of them and has the sum of their sizes, all
\* other blocks are unchanged, and the free units grow by exactly the size
\* of the freed block.
C12_Deallocate ==
    DeallocateOfOwner =>
        /\ ret = TRUE
        /\ ~Owns(memory_blocks, call.process_id)
        /\ \A k \in 1..Len(pre_blocks) :
              Owned(pre_blocks[k], call.process_id)
              => /\ memory_blocks = AfterFreeing(pre_blocks, k)
                 /\ TotalFree(memory_blocks)
                       = TotalFree(pre_blocks) + pre_blocks[k].size

\* C12 witness: the freed block had a free block on each side
C12_Witness ==
    /\ DeallocateOfOwner
    /\ ret = TRUE
    /\ \E k \in 2..(Len(pre_blocks) - 1) :
          /\ Owned(pre_blocks[k], call.process_id)
          /\ pre_blocks[k - 1].is_free
          /\ pre_blocks[k + 1].is_free

\* the log holds one entry per call of calls, in that order, and no merge
\* report
LogShows(log, calls) ==
    /\ Len(log) = Len(calls)
    /\ \A n \in 1..Len(calls) :
          /\ EntryOp(log[n]) = calls[n].op
          /\ log[n].process_id = calls[n].process_id

\* the five allocations and the two deallocations of the scenario
ScenarioSetup == SubSeq(ScenarioCalls, 1, 7)

\* the 250-unit request was the call made right after the setup
ScenarioRequestMade ==
    /\ LogShows(pre_log, ScenarioSetup)
    /\ call = ScenarioCalls[8]

\* C13 as claimed (fragmentation scenario): in a 1000-unit space, after
\* five 100-unit allocations for owners 1..5 and the deallocation of owners
\* 2 and 4, there are 3 free blocks, none of them of 250 units or more, and
\* the following request of 250 units fails.
C13_RequestFails ==
    /\ LogShows(allocation_log, ScenarioSetup)
       => /\ FreeBlockCount(memory_blocks) = 3
          /\ \A k \in 1..Len(memory_blocks) :
                ~FreeWithRoom(memory_blocks[k], ScenarioRequest)
    /\ ScenarioRequestMade
       => /\ ret = FALSE
          /\ memory_blocks = pre_blocks

\* what the code does in the scenario: after the seven calls there are 3
\* free blocks, at 100 and 300 (100 units each) and the 500-unit tail at
\* 500; the request of 250 units succeeds and is placed at 500, at the head
\* of the tail, which is the first free block with room for it; 3 free
\* blocks remain.
C13_RequestPlacedInTail ==
    /\ LogShows(allocation_log, ScenarioSetup)
       => /\ FreeBlockCount(memory_blocks) = 3
          /\ FreeBlocks(memory_blocks) =
                << MemoryBlock(ScenarioUnit, ScenarioUnit, TRUE, None),
                   MemoryBlock(3 * ScenarioUnit, ScenarioUnit, TRUE, None),
                   MemoryBlock(5 * ScenarioUnit, 5 * ScenarioUnit, TRUE,
                               None) >>
    /\ ScenarioRequestMade
       => /\ ret = TRUE
          /\ \E k \in 1..Len(memory_blocks) :
                memory_blocks[k] =
                    MemoryBlock(5 * ScenarioUnit, ScenarioRequest, FALSE,
                                call.process_id)
          /\ FreeBlockCount(memory_blocks) = 3
          /\ allocation_log =
                Append(pre_log,
                       LogAllocated(call.process_id, ScenarioRequest,
                                    5 * ScenarioUnit))

\* the scenario was run: the 250-unit request was made right after the seven calls
\* of the scenario and has returned
C13_Witness ==
    /\ ScenarioRequestMade
    /\ Len(allocation_log) = Len(ScenarioSetup) + 1
    /\ Len(pre_blocks) = 6

\* C14 (round trip): when a successful allocate_memory(owner, size) is
\* immediately followed by deallocate_memory(owner), the free units after
\* the deallocation equal the free units before the allocation.
C14_RoundTrip ==
    [][ (AllocateSucceeded
           /\ call'.op = "deallocate"
           /\ call'.process_id = call.process_id)
        => /\ ret' = TRUE
           /\ TotalFree(memory_blocks') = TotalFree(pre_blocks) ]_vars

\* C14 witness: a deallocate that directly followed the successful
\* allocation of the same owner, in a list that held other blocks
C14_Witness ==
    /\ DeallocateOfOwner
    /\ ret = TRUE
    /\ Len(pre_log) >= 1
    /\ pre_log[Len(pre_log)].text = "Allocated"
    /\ pre_log[Len(pre_log)].process_id = call.process_id
    /\ Len(memory_blocks) >= 3

\* C15 (log discipline): every allocate_memory or deallocate_memory call
\* keeps the earlier entries as a prefix and appends exactly one entry for
\* its own outcome; a successful deallocate appends after it one INFO entry
\* per merge (a merge removes one block); a failing call appends nothing
\* more.
C15_LogDiscipline ==
    (AllocateCalled \/ DeallocateCalled) =>
        /\ Len(allocation_log) >= Len(pre_log) + 1
        /\ SubSeq(allocation_log, 1, Len(pre_log)) = pre_log
        /\ LET own == allocation_log[Len(pre_log) + 1]
           IN  /\ own.level = (IF ret THEN "SUCCESS" ELSE "ERROR")
               /\ EntryOp(own) = call.op
               /\ own.process_id = call.process_id
        /\ \A n \in (Len(pre_log) + 2)..Len(allocation_log) :
              allocation_log[n].level = "INFO"
        /\ Len(allocation_log) - (Len(pre_log) + 1)
              = (IF DeallocateCalled /\ ret
                 THEN Len(pre_blocks) - Len(memory_blocks)
                 ELSE 0)

\* C15 witness: a deallocate whose SUCCESS entry is followed by two merge
\* reports, after earlier entries
C15_Witness ==
    /\ DeallocateCalled
    /\ ret = TRUE
    /\ Len(pre_log) >= 1
    /\ Len(allocation_log) = Len(pre_log) + 3
    /\ allocation_log[Len(pre_log) + 1].level = "SUCCESS"
    /\ allocation_log[Len(allocation_log)].level = "INFO"

\* C16 (construction): construction with total_memory <= 0 fails, so no
\* allocator with a total_memory of 0 or less, and none holding a block of
\* size 0 or less, ever exists.
C16_PositiveTotal ==
    /\ total_memory > 0
    /\ \A k \in 1..Len(memory_blocks) : memory_blocks[k].size > 0

\* C17 (status snapshot): the block sequence of a status returned by
\* get_memory_status does not change when allocate_memory or
\* deallocate_memory is called afterwards, so its blocks keep summing to
\* its total_free and total_allocated.
C17_StatusSnapshot ==
    status.held =>
        /\ BlocksOf(status.blocks) = status.blocks_at_return
        /\ TotalFree(BlocksOf(status.blocks)) = status.total_free
        /\ TotalAllocated(BlocksOf(status.blocks)) = status.total_allocated

\* C18 (log snapshot): a list returned by get_allocation_log keeps the
\* entries it had when it was returned whatever allocate_memory and
\* deallocate_memory calls follow (it holds them, followed only by what the
\* caller itself appended), and what the caller appends to it never shows
\* up in the allocator's own log.
C18_LogSnapshot ==
    /\ log_view.held =>
          LET entries == EntriesOf(log_view.list)
              n == Len(log_view.at_return)
          IN  /\ Len(entries) >= n
              /\ SubSeq(entries, 1, n) = log_view.at_return
              /\ \A k \in (n + 1)..Len(entries) : entries[k] = CallerEntry
    /\ \A k \in 1..Len(allocation_log) : allocation_log[k] # CallerEntry

\* C18 witness: the caller holds a non-empty log to which it has appended,
\* and the allocator has logged further calls since
C18_Witness ==
    /\ log_view.held
    /\ log_view.at_return # <<>>
    /\ Len(allocation_log) > Len(log_view.at_return)
    /\ Len(EntriesOf(log_view.list)) > Len(log_view.at_return)
    /\ ~log_view.list.live

\* the number of free blocks of a list, counted by position
CountFree(blocks) ==
    Cardinality({k \in 1..Len(blocks) : blocks[k].is_free})

AtLeastZero(n) == IF n > 0 THEN n ELSE 0

\* C19 (external fragmentation): get_memory_status reports
\* external_fragmentation = max(0, free_block_count - 1), where
\* free_block_count is the number of free blocks of the list at that
\* moment; the same holds of the figures computed from the current list.
C19_ExternalFragmentation ==
    /\ ExternalFragmentation(memory_blocks)
          = AtLeastZero(CountFree(memory_blocks) - 1)
    /\ status.held =>
          /\ status.free_block_count = CountFree(status.blocks_at_return)
          /\ status.external_fragmentation
                = AtLeastZero(status.free_block_count - 1)
          /\ status.external_fragmentation >= 0

\* C19 witness: a status taken when every unit of a split list was
\* allocated, so that there was no free block
C19_Witness ==
    /\ status.held
    /\ status.free_block_count = 0
    /\ Len(status.blocks_at_return) >= 2
    /\ status.external_fragmentation = 0

\* C20 (idempotent coalescing): in every state reached through the public
\* operations, in particular right after a deallocate has run the merge
\* pass, running _merge_free_blocks (again) changes neither the block list
\* nor the log.
C20_MergeIdempotent ==
    LET again == MergeFreeBlocks(memory_blocks, allocation_log)
    IN  /\ again.blocks = memory_blocks
        /\ again.log = allocation_log

\* C20 witness: the state left by a deallocate whose merge pass merged one
\* pair and reported it
C20_Witness ==
    /\ DeallocateCalled
    /\ ret = TRUE
    /\ Len(memory_blocks) = Len(pre_blocks) - 1
    /\ allocation_log[Len(allocation_log)].level = "INFO"

\* C22 (address stability): an owner's block keeps its start address and
\* its size over every call that is not a deallocate for that owner
\* (calls for other owners, failing calls for the same owner), and the
\* block given by a successful allocate has the requested size.
C22_AddressStability ==
    [][ /\ \A owner \in Pids :
              (Owns(memory_blocks, owner)
                 /\ ~(call'.op = "deallocate" /\ call'.process_id = owner))
              => \E j \in 1..Len(memory_blocks), k \in 1..Len(memory_blocks') :
                    /\ Owned(memory_blocks[j], owner)
                    /\ Owned(memory_blocks'[k], owner)
                    /\ memory_blocks'[k].start_address
                          = memory_blocks[j].start_address
                    /\ memory_blocks'[k].size = memory_blocks[j].size
        /\ (call'.op = "allocate" /\ ret'
              /\ ~Owns(memory_blocks, call'.process_id))
           => \E k \in 1..Len(memory_blocks') :
                 /\ Owned(memory_blocks'[k], call'.process_id)
                 /\ memory_blocks'[k].size = call'.size ]_vars

\* C22 witness: an owner still holds its block after another owner's
\* deallocate merged free blocks in the list
C22_Witness ==
    /\ DeallocateCalled
    /\ ret = TRUE
    /\ Len(memory_blocks) < Len(pre_blocks)
    /\ \E owner \in Pids :
          /\ owner # call.process_id
          /\ Owns(pre_blocks, owner)
          /\ Owns(memory_blocks, owner)

AllFree(blocks) == \A k \in 1..Len(blocks) : blocks[k].is_free

\* C23 (full recovery): whenever no block is owned the list is the single
\* free block [0, total_memory), and a request of 0 < size <= total_memory
\* made in such a state succeeds at address 0.
C23_FullRecovery ==
    /\ AllFree(memory_blocks)
       => memory_blocks = << MemoryBlock(0, total_memory, TRUE, None) >>
    /\ (AllocateCalled /\ AllFree(pre_blocks)
          /\ call.size > 0 /\ call.size <= total_memory)
       => /\ ret = TRUE
          /\ Owned(memory_blocks[1], call.process_id)
          /\ memory_blocks[1].start_address = 0
          /\ memory_blocks[1].size = call.size

\* C23 witness: the last owner was deallocated and the pieces of a list of
\* three blocks or more were merged back into one
C23_Witness ==
    /\ DeallocateCalled
    /\ ret = TRUE
    /\ Len(pre_blocks) >= 3
    /\ AllFree(memory_blocks)
    /\ Len(memory_blocks) = 1

\* C24 (exact round trip): when a successful allocate_memory(owner, size)
\* is immediately followed by deallocate_memory(owner), the block list
\* after the deallocation is the block list before the allocation: same
\* blocks, same start, size, free flag and owner of each.
C24_LayoutRoundTrip ==
    [][ (AllocateSucceeded
           /\ call'.op = "deallocate"
           /\ call'.process_id = call.process_id)
        => memory_blocks' = pre_blocks ]_vars

\* C24 witness: a deallocate that directly followed the allocation of the
\* same owner and merged the block with the remainder of the split, next
\* to a block of another owner
C24_Witness ==
    /\ DeallocateOfOwner
    /\ ret = TRUE
    /\ Len(pre_log) >= 1
    /\ pre_log[Len(pre_log)].text = "Allocated"
    /\ pre_log[Len(pre_log)].process_id = call.process_id
    /\ Len(memory_blocks) = Len(pre_blocks) - 1
    /\ \E k \in 1..Len(memory_blocks) : ~memory_blocks[k].is_free

IsMergeEntry(entry) == entry.level = "INFO"

\* C25 (bounded merging): a successful deallocate_memory performs at most
\* two merges: it appends at most two INFO entries, removes at most two
\* blocks from the list, and leaves no two adjacent free blocks.
C25_BoundedMerging ==
    (DeallocateCalled /\ ret) =>
        /\ Len(pre_blocks) - Len(memory_blocks) \in 0..2
        /\ Len(SelectSeq(allocation_log, IsMergeEntry))
              - Len(SelectSeq(pre_log, IsMergeEntry)) \in 0..2
        /\ \A k \in 1..(Len(memory_blocks) - 1) :
              ~(memory_blocks[k].is_free /\ memory_blocks[k + 1].is_free)

\* C25 witness: a deallocate that merged with the right and with the left
\* neighbour and reported both merges
C25_Witness ==
    /\ DeallocateCalled
    /\ ret = TRUE
    /\ Len(SelectSeq(allocation_log, IsMergeEntry))
          = Len(SelectSeq(pre_log, IsMergeEntry)) + 2
    /\ Len(pre_blocks) - Len(memory_blocks) = 2

SomeInvariantBroken ==
    \/ ~C1_Partition
    \/ ~C2_NoAdjacentFree
    \/ ~C3_OneBlockPerOwner
    \/ ~C4_PositiveSizes

Quiescent == \A t \in Threads : ~InFlight(t)

\* C21 (interleaving): the invariants I1..I4 rest on allocate_memory calls
\* not overlapping: when every call has returned they hold as long as no
\* call has started while another was running, and a state that breaks
\* them is reached once two calls interleave between their scans and the
\* mutation of the block.
C21_BrokenOnlyByInterleaving ==
    (Quiescent /\ SomeInvariantBroken) => overlapped

\* C21 witness: two overlapping calls both returned True (the log has two
\* "Allocated" entries at the same address, for two owners), and the list
\* breaks an invariant while only one of the two owners holds a block
C21_Witness ==
    /\ overlapped
    /\ Quiescent
    /\ SomeInvariantBroken
    /\ \E m, n \in 1..Len(allocation_log) :
          /\ m < n
          /\ allocation_log[m].text = "Allocated"
          /\ allocation_log[n].text = "Allocated"
          /\ allocation_log[m].start_address = allocation_log[n].start_address
          /\ allocation_log[m].process_id # allocation_log[n].process_id
          /\ ~Owns(memory_blocks, allocation_log[m].process_id)
          /\ Owns(memory_blocks, allocation_log[n].process_id)

====
